---- MODULE Spec2Model ----
(***************************************************************************)
(* A model of bbdc_cli (src/bbdc_cli/__main__.py): the configuration       *)
(* resolver (_env, _norm_base, client) and the HTTP client                 *)
(* (BitbucketClient.request, BitbucketClient.paged_get).                   *)
(*                                                                         *)
(* Python strings that the code takes apart (environment values, URLs,     *)
(* paths) are sequences of one-character strings.  JSON values are tagged  *)
(* records.  A Python call either returns or raises: its outcome is a      *)
(* record whose kind is "value", "BBError" or "exception" (an exception    *)
(* that is not a BBError and so escapes main's handler).                   *)
(***************************************************************************)
EXTENDS Integers, Sequences, FiniteSets, TLC

VARIABLES
    pc,         \* position of the calling command
    env,        \* the process environment: a function on the variables that are set
    bb,         \* the BitbucketClient in use (or NoClient)
    ret,        \* outcome of the last operation
    wire,       \* every HTTP call issued so far, in order
    resp,       \* request(): the response being classified
    args,       \* arguments of the operation in progress
    out,        \* paged_get: accumulator
    start,      \* paged_get: cursor
    params,     \* paged_get: its private copy of the query parameters
    pages,      \* the responses the server serves to successive calls
    fetched     \* paged_get: the pages request() has returned, in order

vars == <<pc, env, bb, ret, wire, resp, args, out, start, params, pages, fetched>>

(***************************************************************************)
(* Bounds of the model.                                                    *)
(***************************************************************************)
\* longest run of trailing "/" and " " appended to a server URL
MaxTrail == 2
\* longest script of pages a server holds
MaxPages == 3
\* largest max_items a caller passes
MaxMaxItems == 3
\* most page requests of one paged_get the model follows
MaxRequests == 4

(***************************************************************************)
(* Python strings.                                                         *)
(***************************************************************************)
\* str.strip() removes these
Whitespace == {" ", "\t"}

RECURSIVE LStripSet(_, _)
\* s with its leading characters that are in cs removed
LStripSet(s, cs) ==
    IF s # <<>> /\ Head(s) \in cs THEN LStripSet(Tail(s), cs) ELSE s

RECURSIVE RStripSet(_, _)
\* s with its trailing characters that are in cs removed
RStripSet(s, cs) ==
    IF s # <<>> /\ s[Len(s)] \in cs
    THEN RStripSet(SubSeq(s, 1, Len(s) - 1), cs)
    ELSE s

\* str.strip()
Strip(s) == RStripSet(LStripSet(s, Whitespace), Whitespace)

\* str.rstrip("/")
RStripSlash(s) == RStripSet(s, {"/"})

\* str.lstrip("/")
LStripSlash(s) == LStripSet(s, {"/"})

\* str.endswith(suffix)
EndsWith(s, suffix) ==
    /\ Len(s) >= Len(suffix)
    /\ SubSeq(s, Len(s) - Len(suffix) + 1, Len(s)) = suffix

\* the literal "/rest"
RestSuffix == <<"/", "r", "e", "s", "t">>

\* the literal "/api/latest"
ApiLatest == <<"/", "a", "p", "i", "/", "l", "a", "t", "e", "s", "t">>

(***************************************************************************)
(* Outcomes of a call.                                                     *)
(***************************************************************************)
\* nothing returned or raised yet
NoResult == [kind |-> "none"]

\* return v
Value(v) == [kind |-> "value", value |-> v]

\* raise BBError(f"Missing environment variable {name}.")
MissingVariable(name) == [kind |-> "BBError", error |-> "missing", name |-> name]

\* raise BBError("BITBUCKET_SERVER must end with '/rest' ... Got: {server}")
InvalidBaseURL(server) == [kind |-> "BBError", error |-> "invalid_base", got |-> server]

(***************************************************************************)
(* Configuration: _env, _norm_base, client.                                *)
(***************************************************************************)
\* os.getenv(name, default)
Getenv(e, name, default) == IF name \in DOMAIN e THEN e[name] ELSE default

\* a mutant of _env: the emptiness check is lost
EnvNoCheck(e, name) == Value(Strip(Getenv(e, name, <<>>)))

\* _env(name)
Env(e, name) ==
    LET v == Strip(Getenv(e, name, <<>>))
    IN  IF v = <<>> THEN MissingVariable(name) ELSE Value(v)

\* a mutant of _norm_base: the trailing slashes are not stripped
NormBaseNoStrip(server) ==
    IF ~EndsWith(server, RestSuffix) THEN InvalidBaseURL(server) ELSE Value(server)

\* _norm_base(server)
NormBase(server) ==
    LET s == RStripSlash(server)
    IN  IF ~EndsWith(s, RestSuffix) THEN InvalidBaseURL(s) ELSE Value(s)

\* the default of BitbucketClient.timeout_s
DefaultTimeout == 30

\* BitbucketClient(base_rest, token)
BitbucketClient(base_rest, token) ==
    [base_rest |-> base_rest, token |-> token, timeout_s |-> DefaultTimeout]

\* no client constructed
NoClient == [base_rest |-> <<>>, token |-> <<>>, timeout_s |-> 0]

\* client(): the arguments of the constructor are evaluated left to right,
\* _norm_base(_env("BITBUCKET_SERVER")) before _env("BITBUCKET_API_TOKEN")
ClientOf(e) ==
    LET server == Env(e, "BITBUCKET_SERVER")
    IN  IF server.kind # "value" THEN server
        ELSE LET base == NormBase(server.value)
             IN  IF base.kind # "value" THEN base
                 ELSE LET token == Env(e, "BITBUCKET_API_TOKEN")
                      IN  IF token.kind # "value" THEN token
                          ELSE Value(BitbucketClient(base.value, token.value))

\* BitbucketClient.api
Api(client) == client.base_rest \o ApiLatest

(***************************************************************************)
(* Python and JSON values.                                                 *)
(***************************************************************************)
\* None / JSON null
JNull == [t |-> "null"]

\* True, False
JBool(b) == [t |-> "bool", b |-> b]

\* an int
JInt(n) == [t |-> "int", n |-> n]

\* a str (s is the whole string; "" is the empty string)
JStr(s) == [t |-> "str", s |-> s]

\* a list with the elements of the sequence elems
JList(elems) == [t |-> "list", elems |-> elems]

\* a dict: f is a function from its keys to their values
JDict(f) == [t |-> "dict", f |-> f]

\* {}
EmptyDict == JDict([k \in {} |-> JNull])

\* isinstance(j, dict)
IsDict(j) == j.t = "dict"

\* isinstance(j, list)
IsList(j) == j.t = "list"

\* isinstance(j, str)
IsStr(j) == j.t = "str"

\* key in d
Has(d, key) == key \in DOMAIN d.f

\* d.get(key, default)
Get(d, key, default) == IF Has(d, key) THEN d.f[key] ELSE default

\* bool(v): the truth value Python's if, or and not give v
Truthy(v) ==
    CASE v.t = "null" -> FALSE
      [] v.t = "bool" -> v.b
      [] v.t = "int"  -> v.n # 0
      [] v.t = "str"  -> v.s # ""
      [] v.t = "list" -> v.elems # <<>>
      [] v.t = "dict" -> DOMAIN v.f # {}

\* d.update(e), both dicts
Update(d, e) ==
    JDict([k \in DOMAIN d.f \cup DOMAIN e.f |-> IF k \in DOMAIN e.f THEN e.f[k] ELSE d.f[k]])

(***************************************************************************)
(* The HTTP exchange: what requests.request() gives back.                  *)
(***************************************************************************)
\* requests.request raised a requests.RequestException e
Raised(e) == [kind |-> "raise", cause |-> e]

\* requests.request returned a Response
Response(status_code, headers, body) ==
    [kind |-> "response", status_code |-> status_code, headers |-> headers, body |-> body]

\* a response body of no bytes
NoBody == [form |-> "empty"]

\* a response body that is not JSON text
TextBody(text) == [form |-> "text", text |-> text]

\* a response body that is the JSON text of j
JsonBody(j) == [form |-> "json", json |-> j]

\* bool(resp.content): the body has bytes
HasContent(r) == r.body.form # "empty"

\* resp.text
Text(r) ==
    CASE r.body.form = "empty" -> ""
      [] r.body.form = "text"  -> r.body.text
      [] r.body.form = "json"  -> ToString(r.body.json)

\* resp.json() raised (requests.exceptions.JSONDecodeError)
JSONDecodeError == [kind |-> "exception", exception |-> "JSONDecodeError"]

\* 'NoneType'/'list'/'str' object has no attribute 'get'
AttributeError == [kind |-> "exception", exception |-> "AttributeError"]

\* resp.json()
RespJson(r) == IF r.body.form = "json" THEN Value(r.body.json) ELSE JSONDecodeError

\* resp.headers.get("content-type", ""): a header value is the sequence of its parts
ContentType(r) ==
    IF "content-type" \in DOMAIN r.headers THEN r.headers["content-type"] ELSE <<>>

\* part in header_value
Contains(value, part) == \E i \in 1..Len(value) : value[i] = part

\* raise BBError(f"Request failed: {e}")
TransportError(e) == [kind |-> "BBError", error |-> "transport", cause |-> e]

\* raise BBError(f"HTTP {resp.status_code} for {method} {url}" + (f": {detail}" if detail else ""))
HTTPStatusError(status_code, method, url, detail) ==
    [kind |-> "BBError", error |-> "http", status_code |-> status_code,
     method |-> method, url |-> url,
     detail |-> IF Truthy(detail) THEN detail ELSE JStr("")]

(***************************************************************************)
(* BitbucketClient._headers and BitbucketClient.request.                   *)
(***************************************************************************)
\* str.upper() on the method names callers use
Upper(method) ==
    CASE method = "get"  -> "GET"
      [] method = "post" -> "POST"
      [] OTHER -> method

\* the literal "Bearer "
Bearer == <<"B", "e", "a", "r", "e", "r", " ">>

\* a mutant of _headers: Content-Type is set on every call
HeadersAlwaysContentType(client, content_type) ==
    [k \in {"Authorization", "Accept", "Content-Type"} |->
        CASE k = "Authorization" -> Bearer \o client.token
          [] k = "Accept" -> <<"application/json;charset=UTF-8">>
          [] k = "Content-Type" -> <<"application/json">>]

\* BitbucketClient._headers(content_type); content_type is None (JNull) or a str
Headers(client, content_type) ==
    LET h == [k \in {"Authorization", "Accept"} |->
                 IF k = "Authorization" THEN Bearer \o client.token
                 ELSE <<"application/json;charset=UTF-8">>]
    IN  IF Truthy(content_type)
        THEN [k \in DOMAIN h \cup {"Content-Type"} |->
                 IF k = "Content-Type" THEN <<content_type.s>> ELSE h[k]]
        ELSE h

\* url = f"{self.api}/{path.lstrip('/')}"
Url(client, path) == Api(client) \o <<"/">> \o LStripSlash(path)

\* the HTTP call request() hands to requests.request
Call(client, method, path, ps, json_body) ==
    [method |-> Upper(method),
     url |-> Url(client, path),
     headers |-> Headers(client, IF json_body # JNull THEN JStr("application/json") ELSE JNull),
     params |-> ps,
     json |-> json_body,
     timeout |-> client.timeout_s]

\* the body of the try block of request(): the detail it leaves, or the
\* exception that ends it
ExtractDetail(r) ==
    LET j == RespJson(r)
    IN  IF j.kind # "value" THEN j
        ELSE IF ~IsDict(j.value) THEN Value(JStr(""))
        ELSE IF Has(j.value, "errors") /\ IsList(j.value.f["errors"]) /\ Truthy(j.value.f["errors"])
             THEN LET first == j.value.f["errors"].elems[1]
                  IN  IF ~IsDict(first) THEN AttributeError
                      ELSE LET msg == Get(first, "message", JNull)
                           IN  IF Truthy(msg) THEN Value(msg) ELSE Value(JStr(""))
        ELSE IF Has(j.value, "message") /\ IsStr(j.value.f["message"])
             THEN Value(j.value.f["message"])
        ELSE Value(JStr(""))

\* detail after try ... except Exception: pass
Detail(r) ==
    LET d == ExtractDetail(r)
    IN  IF d.kind = "value" THEN d.value ELSE JStr("")

\* a mutant of the status test: only 5xx codes are failures
IsFailure5xx(status_code) == status_code >= 500

\* resp.status_code >= 400
IsFailure(status_code) == status_code >= 400

\* a mutant of request(): an exception of the error extraction escapes
RequestOfNoCatch(client, method, path, r) ==
    IF r.kind = "raise" THEN TransportError(r.cause)
    ELSE IF IsFailure(r.status_code)
         THEN IF ExtractDetail(r).kind # "value" THEN ExtractDetail(r)
              ELSE HTTPStatusError(r.status_code, method, Url(client, path), Detail(r))
    ELSE IF ~HasContent(r) THEN Value(EmptyDict)
    ELSE IF Contains(ContentType(r), "application/json") THEN RespJson(r)
    ELSE Value(JDict([k \in {"raw"} |-> JStr(Text(r))]))

\* a mutant of request(): the RequestException is not caught
RequestOfRaw(client, method, path, r) ==
    IF r.kind = "raise" THEN [kind |-> "exception", exception |-> r.cause]
    ELSE IF IsFailure(r.status_code)
         THEN HTTPStatusError(r.status_code, method, Url(client, path), Detail(r))
    ELSE IF ~HasContent(r) THEN Value(EmptyDict)
    ELSE IF Contains(ContentType(r), "application/json") THEN RespJson(r)
    ELSE Value(JDict([k \in {"raw"} |-> JStr(Text(r))]))

\* a mutant of request(): every body is decoded as JSON, whatever its content type
RequestOfJsonOnly(client, method, path, r) ==
    IF r.kind = "raise" THEN TransportError(r.cause)
    ELSE IF IsFailure(r.status_code)
         THEN HTTPStatusError(r.status_code, method, Url(client, path), Detail(r))
    ELSE IF ~HasContent(r) THEN Value(EmptyDict)
    ELSE RespJson(r)

\* request(): what it returns or raises, given what requests.request gave back
RequestOf(client, method, path, r) ==
    IF r.kind = "raise" THEN TransportError(r.cause)
    ELSE IF IsFailure(r.status_code)
         THEN HTTPStatusError(r.status_code, method, Url(client, path), Detail(r))
    ELSE IF ~HasContent(r) THEN Value(EmptyDict)
    ELSE IF Contains(ContentType(r), "application/json") THEN RespJson(r)
    ELSE Value(JDict([k \in {"raw"} |-> JStr(Text(r))]))

(***************************************************************************)
(* BitbucketClient.paged_get.                                              *)
(***************************************************************************)
\* a mutant of the slice: out is returned whole
SliceNone(s, k) == s

\* s[:k], Python's slice: a negative k counts from the end
SliceTo(s, k) ==
    IF k >= 0
    THEN SubSeq(s, 1, IF k < Len(s) THEN k ELSE Len(s))
    ELSE SubSeq(s, 1, IF Len(s) + k > 0 THEN Len(s) + k ELSE 0)

\* dict(params or {})
ParamsCopy(ps) == IF Truthy(ps) THEN ps ELSE EmptyDict

\* a mutant of the update: start and limit of the caller are kept (setdefault)
PageParamsCallerWins(ps, cursor, limit) ==
    Update(JDict([k \in {"start", "limit"} |-> IF k = "start" THEN cursor ELSE JInt(limit)]), ps)

\* params.update({"start": start, "limit": limit})
PageParams(ps, cursor, limit) ==
    Update(ps, JDict([k \in {"start", "limit"} |-> IF k = "start" THEN cursor ELSE JInt(limit)]))

\* the values a page adds to out: page.get("values", []) when it is a list
PageValues(page) ==
    LET values == Get(page, "values", JList(<<>>))
    IN  IF IsList(values) THEN values.elems ELSE <<>>

\* the response the server gives to its i-th call: it serves its pages in
\* order and goes on serving the last one
Served(script, i) == script[IF i < Len(script) THEN i ELSE Len(script)]

\* a mutant of the max_items test: the test is lost
ReachedMaxNever(acc, max_items) == FALSE

\* a mutant of the max_items test: > for >=
ReachedMaxStrict(acc, max_items) == Len(acc) > max_items

\* len(out) >= max_items
ReachedMax(acc, max_items) == Len(acc) >= max_items

\* a mutant of the isLastPage test: a missing field means "not the last page"
IsLastPageDefaultFalse(page) == Truthy(Get(page, "isLastPage", JBool(FALSE)))

\* page.get("isLastPage", True)
IsLastPage(page) == Truthy(Get(page, "isLastPage", JBool(TRUE)))

\* page.get("nextPageStart")
NextPageStart(page) == Get(page, "nextPageStart", JNull)

\* a mutant of the cursor test: the check is lost and the loop goes on
NoCursorNever(cursor) == FALSE

\* a mutant of the cursor test: "if not start"
NoCursorFalsy(cursor) == ~Truthy(cursor)

\* start is None
NoCursor(cursor) == cursor = JNull

\* a mutant of the loop: the max_items test is made at the top of the pass,
\* before the response of the request is looked at
LoopPassChecksFirst(client, a, acc, cursor, ps, r) ==
    IF ReachedMax(acc, a.max_items)
    THEN [out |-> acc, start |-> cursor, params |-> PageParams(ps, cursor, a.limit),
          pc |-> "returned", ret |-> Value(SliceTo(acc, a.max_items))]
    ELSE
        LET sent == PageParams(ps, cursor, a.limit)
            page == RequestOf(client, "GET", a.path, r)
        IN  IF page.kind # "value"
            THEN [out |-> acc, start |-> cursor, params |-> sent, pc |-> "raised", ret |-> page]
            ELSE IF ~IsDict(page.value)
            THEN [out |-> acc, start |-> cursor, params |-> sent,
                  pc |-> "raised", ret |-> AttributeError]
            ELSE LET acc1 == acc \o PageValues(page.value)
                     next == NextPageStart(page.value)
                 IN  IF ReachedMax(acc1, a.max_items)
                     THEN [out |-> acc1, start |-> cursor, params |-> sent,
                           pc |-> "returned", ret |-> Value(SliceTo(acc1, a.max_items))]
                     ELSE IF IsLastPage(page.value)
                     THEN [out |-> acc1, start |-> cursor, params |-> sent,
                           pc |-> "returned", ret |-> Value(acc1)]
                     ELSE IF NoCursor(next)
                     THEN [out |-> acc1, start |-> next, params |-> sent,
                           pc |-> "returned", ret |-> Value(acc1)]
                     ELSE [out |-> acc1, start |-> next, params |-> sent,
                           pc |-> "fetching", ret |-> NoResult]

\* one pass of the while loop of paged_get, from the state (acc, cursor, ps),
\* when requests.request gives back r: the new locals and where control goes
LoopPass(client, a, acc, cursor, ps, r) ==
    LET sent == PageParams(ps, cursor, a.limit)
        page == RequestOf(client, "GET", a.path, r)
    IN  IF page.kind # "value"
        THEN [out |-> acc, start |-> cursor, params |-> sent, pc |-> "raised", ret |-> page]
        ELSE IF ~IsDict(page.value)
        THEN [out |-> acc, start |-> cursor, params |-> sent,
              pc |-> "raised", ret |-> AttributeError]
        ELSE LET acc1 == acc \o PageValues(page.value)
                 next == NextPageStart(page.value)
             IN  IF ReachedMax(acc1, a.max_items)
                 THEN [out |-> acc1, start |-> cursor, params |-> sent,
                       pc |-> "returned", ret |-> Value(SliceTo(acc1, a.max_items))]
                 ELSE IF IsLastPage(page.value)
                 THEN [out |-> acc1, start |-> cursor, params |-> sent,
                       pc |-> "returned", ret |-> Value(acc1)]
                 ELSE IF NoCursor(next)
                 THEN [out |-> acc1, start |-> next, params |-> sent,
                       pc |-> "returned", ret |-> Value(acc1)]
                 ELSE [out |-> acc1, start |-> next, params |-> sent,
                       pc |-> "fetching", ret |-> NoResult]

(***************************************************************************)
(* Inputs: environments, arguments and server behaviours.                  *)
(***************************************************************************)
\* runs of "/" and " " that follow a server URL
Trails == UNION {[1..k -> {"/", " "}] : k \in 0..MaxTrail}

\* values of BITBUCKET_SERVER
ServerValues ==
    LET cores == {<<>>, <<"h">>, <<"h">> \o RestSuffix, RestSuffix,
                  <<"r", "e", "s", "t">>, <<"h", "/", "r", "e", "s">>,
                  <<"h">> \o RestSuffix \o <<"/", "x">>,
                  <<"h">> \o RestSuffix \o <<" ">> \o RestSuffix}
    IN  {lead \o core \o trail : lead \in {<<>>, <<" ">>}, core \in cores, trail \in Trails}

\* values of BITBUCKET_API_TOKEN
TokenValues == {<<>>, <<" ">>, <<"\t", " ">>, <<"t">>, <<" ", "t", "k", " ">>}

\* the environments a command may run in: each variable unset or set
Envs ==
    {[k \in D |-> IF k = "BITBUCKET_SERVER" THEN s ELSE t] :
        D \in SUBSET {"BITBUCKET_SERVER", "BITBUCKET_API_TOKEN"},
        s \in ServerValues, t \in TokenValues}

\* the environment of the module docstring's example
DefaultEnv ==
    [k \in {"BITBUCKET_SERVER", "BITBUCKET_API_TOKEN"} |->
        IF k = "BITBUCKET_SERVER" THEN <<"h">> \o RestSuffix ELSE <<"t">>]

\* the methods request() is called with
Methods == {"GET", "POST", "get"}

\* the paths request() is called with
Paths == {<<"p">>, <<"/", "p">>, <<"/", "/", "p", "/", "q">>}

\* params of request(): None or a dict
ParamsValues == {JNull, JDict([k \in {"state"} |-> JStr("OPEN")])}

\* json_body of request(): None or a dict
JsonBodies == {JNull, EmptyDict, JDict([k \in {"text"} |-> JStr("hi")])}

\* a field a JSON object does not have
Absent == [t |-> "absent"]

\* the JSON object with the fields of fields that are not Absent
Object(fields) ==
    JDict([k \in {x \in DOMAIN fields : fields[x] # Absent} |-> fields[k]])

\* the errors field of an error body
ErrorsValues ==
    {Absent, JNull, JList(<<>>), JList(<<JStr("e0")>>), JList(<<EmptyDict>>),
     JList(<<JDict([k \in {"message"} |-> JStr("")])>>),
     JList(<<JDict([k \in {"message"} |-> JNull])>>),
     JList(<<JDict([k \in {"message"} |-> JStr("e1")]),
             JDict([k \in {"message"} |-> JStr("e2")])>>)}

\* the message field of an error body
MessageValues == {Absent, JNull, JInt(3), JStr(""), JStr("top")}

\* bodies a server sends
Bodies ==
    {NoBody, TextBody("<html>"), JsonBody(JList(<<>>)), JsonBody(JStr("x")), JsonBody(JNull)}
    \cup {JsonBody(Object([errors |-> e, message |-> m])) :
            e \in ErrorsValues, m \in MessageValues}

\* response headers a server sends
HeaderValues ==
    {<<>>} \cup
    {[k \in {"content-type"} |-> v] :
        v \in {<<>>, <<"application/json">>, <<"application/json", ";charset=UTF-8">>,
               <<"text/plain">>, <<"Application/JSON">>}}

\* status codes a server sends
StatusCodes == {200, 204, 399, 400, 404, 500}

\* what requests.request may give back to one call
Exchanges ==
    {Raised(e) : e \in {"ConnectionError", "Timeout", "SSLError"}}
    \cup {Response(c, h, b) : c \in StatusCodes, h \in HeaderValues, b \in Bodies}

(***************************************************************************)
(* Servers for paged_get: scripts of pages.                                *)
(***************************************************************************)
\* numbers of items on a page
ItemCounts == {0, 1, 2}

\* the j-th item of the i-th page
Item(i, j) == JDict([k \in {"id"} |-> JInt(10 * i + j)])

\* the values field of the i-th page
ValuesAt(i) == {Absent, JNull} \cup {JList([j \in 1..c |-> Item(i, j)]) : c \in ItemCounts}

\* a 200 application/json response whose body is the object j
JsonOk(j) == Response(200, [k \in {"content-type"} |-> <<"application/json">>], JsonBody(j))

\* i-th pages after which paged_get asks for another one (unless max_items is
\* reached): a list of items and an advancing cursor, or no list and the cursor 0
Continuing(i) ==
    {JsonOk(Object([values |-> JList([j \in 1..c |-> Item(i, j)]),
                    isLastPage |-> JBool(FALSE), nextPageStart |-> JInt(25 * i)])) :
        c \in ItemCounts}
    \cup {JsonOk(Object([values |-> JNull, isLastPage |-> JBool(FALSE),
                         nextPageStart |-> JInt(0)]))}

\* i-th responses of any kind
Final(i) ==
    {Raised("Timeout"),
     Response(500, <<>>, NoBody),
     Response(404, [k \in {"content-type"} |-> <<"application/json">>],
              JsonBody(Object([errors |-> JList(<<JDict([k \in {"message"} |-> JStr("e1")])>>)]))),
     Response(204, <<>>, NoBody),
     Response(200, [k \in {"content-type"} |-> <<"text/plain">>], TextBody("<html>")),
     Response(200, [k \in {"content-type"} |-> <<"application/json">>], TextBody("<html>")),
     JsonOk(JList(<<>>))}
    \cup {JsonOk(Object([values |-> v, isLastPage |-> l, nextPageStart |-> n])) :
            v \in ValuesAt(i), l \in {Absent, JBool(TRUE)}, n \in {Absent, JInt(25)}}
    \cup {JsonOk(Object([values |-> v, isLastPage |-> JBool(FALSE), nextPageStart |-> n])) :
            v \in ValuesAt(i), n \in {Absent, JNull, JInt(0), JInt(25)}}

RECURSIVE Prefixes(_)
\* the scripts of k continuing pages
Prefixes(k) ==
    IF k = 0 THEN {<<>>}
    ELSE {Append(s, p) : s \in Prefixes(k - 1), p \in Continuing(k)}

\* the servers: continuing pages followed by one response of any kind
Scripts ==
    UNION {{Append(s, f) : s \in Prefixes(n - 1), f \in Final(n)} : n \in 1..MaxPages}

\* params of paged_get(): None, or a dict that also names start and limit
PagedParams ==
    {JNull,
     JDict([k \in {"state", "start", "limit"} |-> IF k = "state" THEN JStr("OPEN") ELSE JInt(9)])}

\* the default page size of paged_get
DefaultLimit == 50

\* the max_items a caller passes (the command line takes any integer)
MaxItemsValues == (-1)..MaxMaxItems

(***************************************************************************)
(* The commands.                                                           *)
(***************************************************************************)
\* no operation in progress
NoArgs == [op |-> "none"]

\* no response yet
NoResponse == [kind |-> "none"]

\* a process that has not called client() yet
InitConfig ==
    /\ pc = "start"
    /\ env \in Envs
    /\ bb = NoClient
    /\ ret = NoResult
    /\ wire = <<>>
    /\ resp = NoResponse
    /\ args = NoArgs
    /\ out = <<>>
    /\ start = JInt(0)
    /\ params = EmptyDict
    /\ pages = <<>>
    /\ fetched = <<>>

\* bb = client()
Client ==
    /\ pc = "start"
    /\ LET c == ClientOf(env)
       IN  /\ ret' = c
           /\ bb' = IF c.kind = "value" THEN c.value ELSE NoClient
           /\ pc' = IF c.kind = "value" THEN "ready" ELSE "raised"
    /\ UNCHANGED <<env, wire, resp, args, out, start, params, pages, fetched>>

NextConfig == Client

SpecConfig == InitConfig /\ [][NextConfig]_vars

\* a process whose client() has returned, facing any server
InitRequest ==
    /\ pc = "ready"
    /\ env = DefaultEnv
    /\ bb = ClientOf(DefaultEnv).value
    /\ ret = NoResult
    /\ wire = <<>>
    /\ resp = NoResponse
    /\ args = NoArgs
    /\ out = <<>>
    /\ start = JInt(0)
    /\ params = EmptyDict
    /\ pages = <<>>
    /\ fetched = <<>>

\* bb.request(method, path, params=ps, json_body=json_body), for any arguments
\* and any answer r of requests.request
Request ==
    /\ pc = "ready"
    /\ \E method \in Methods, path \in Paths, ps \in ParamsValues,
          json_body \in JsonBodies, r \in Exchanges :
        /\ args' = [op |-> "request", method |-> method, path |-> path,
                    params |-> ps, json_body |-> json_body]
        /\ wire' = Append(wire, Call(bb, method, path, ps, json_body))
        /\ resp' = r
        /\ ret' = RequestOf(bb, method, path, r)
        /\ pc' = IF ret'.kind = "value" THEN "returned" ELSE "raised"
    /\ UNCHANGED <<env, bb, out, start, params, pages, fetched>>

NextRequest == Request

SpecRequest == InitRequest /\ [][NextRequest]_vars

\* a process whose client() has returned, facing a server with a script of pages
Init ==
    /\ pc = "ready"
    /\ env = DefaultEnv
    /\ bb = ClientOf(DefaultEnv).value
    /\ ret = NoResult
    /\ wire = <<>>
    /\ resp = NoResponse
    /\ args = NoArgs
    /\ out = <<>>
    /\ start = JInt(0)
    /\ params = EmptyDict
    /\ pages \in Scripts
    /\ fetched = <<>>

\* the path of the pull-request list
ListPath == <<"p", "r", "s">>

\* bb.paged_get(path, params=ps, limit=limit, max_items=max_items), up to the loop
PagedGet ==
    /\ pc = "ready"
    /\ \E ps \in PagedParams, max_items \in MaxItemsValues :
        /\ args' = [op |-> "paged_get", path |-> ListPath, params |-> ps,
                    limit |-> DefaultLimit, max_items |-> max_items]
        /\ params' = ParamsCopy(ps)
    /\ out' = <<>>
    /\ start' = JInt(0)
    /\ pc' = "fetching"
    /\ UNCHANGED <<env, bb, ret, wire, resp, pages, fetched>>

\* one pass of the loop of paged_get: a page is requested and dealt with
Fetch ==
    /\ pc = "fetching"
    /\ Len(wire) < MaxRequests
    /\ LET r == Served(pages, Len(wire) + 1)
           n == LoopPass(bb, args, out, start, params, r)
           page == RequestOf(bb, "GET", args.path, r)
       IN  /\ wire' = Append(wire, Call(bb, "GET", args.path, n.params, JNull))
           /\ resp' = r
           /\ fetched' = IF page.kind = "value" THEN Append(fetched, page.value) ELSE fetched
           /\ out' = n.out
           /\ start' = n.start
           /\ params' = n.params
           /\ ret' = n.ret
           /\ pc' = n.pc
    /\ UNCHANGED <<env, bb, args, pages>>

Next == PagedGet \/ Fetch

Spec == Init /\ [][Next]_vars

(***************************************************************************)
(* Properties of paged_get (specification Spec).                           *)
(***************************************************************************)
\* what request() gives paged_get for its i-th call
PageAt(i) == RequestOf(bb, "GET", args.path, Served(pages, i))

\* the i-th call is answered with a JSON object
IsPage(i) == PageAt(i).kind = "value" /\ IsDict(PageAt(i).value)

RECURSIVE ItemsUpTo(_)
\* the values of the first m pages of the script, in order
ItemsUpTo(m) ==
    IF m = 0 THEN <<>>
    ELSE ItemsUpTo(m - 1) \o (IF IsPage(m) THEN PageValues(PageAt(m).value) ELSE <<>>)

\* the script is P0..Pn as C1 describes it: every page but the last has
\* isLastPage false and a nextPageStart, the last has isLastPage true
IsChain ==
    \A i \in 1..Len(pages) :
        /\ IsPage(i)
        /\ i < Len(pages) =>
              /\ Get(PageAt(i).value, "isLastPage", Absent) = JBool(FALSE)
              /\ Get(PageAt(i).value, "nextPageStart", Absent).t = "int"
        /\ i = Len(pages) => Get(PageAt(i).value, "isLastPage", Absent) = JBool(TRUE)

\* the first page with which the accumulator reaches k, or the last page
StopPage(k) ==
    CHOOSE m \in 1..Len(pages) :
        /\ m = Len(pages) \/ Len(ItemsUpTo(m)) >= k
        /\ \A j \in 1..(m - 1) : Len(ItemsUpTo(j)) < k

\* C1 as stated: for a script P0..Pn whose values together number at most
\* max_items, paged_get returns their concatenation after exactly n+1 requests.
C1_AsStated ==
    (args.op = "paged_get" /\ IsChain /\ Len(ItemsUpTo(Len(pages))) <= args.max_items) =>
        /\ Len(wire) <= Len(pages)
        /\ pc # "raised"
        /\ pc = "returned" =>
              /\ ret = Value(ItemsUpTo(Len(pages)))
              /\ Len(wire) = Len(pages)

\* C1, amended: for a script P0..Pn whose values together number at most
\* max_items, paged_get returns their concatenation in order; it makes n+1
\* requests when P0..P(n-1) hold fewer than max_items items, and otherwise
\* stops with the first page that brings the accumulator to max_items.
C1_Concatenation ==
    (args.op = "paged_get" /\ IsChain /\ Len(ItemsUpTo(Len(pages))) <= args.max_items) =>
        /\ Len(wire) <= StopPage(args.max_items)
        /\ pc # "raised"
        /\ pc = "returned" =>
              /\ ret = Value(ItemsUpTo(Len(pages)))
              /\ Len(wire) = StopPage(args.max_items)
              /\ (Len(ItemsUpTo(Len(pages) - 1)) < args.max_items => Len(wire) = Len(pages))

\* C1's case: three pages with items, all below max_items, fetched with three requests
C1_Witness ==
    /\ pc = "returned"
    /\ IsChain
    /\ Len(pages) = 3
    /\ Len(wire) = 3
    /\ Len(ret.value) = 3
    /\ Len(ret.value) <= args.max_items

\* C2 as stated: for every max_items = k below the number of items of the
\* script, paged_get returns exactly k items and requests no page after the
\* first one that brings the accumulator to k.
C2_AsStated ==
    (args.op = "paged_get" /\ IsChain /\ args.max_items < Len(ItemsUpTo(Len(pages)))) =>
        /\ Len(wire) <= StopPage(args.max_items)
        /\ pc # "raised"
        /\ pc = "returned" =>
              /\ Len(ret.value) = args.max_items
              /\ Len(wire) = StopPage(args.max_items)

\* C2, amended: for every max_items = k with 0 <= k below the number of items
\* of the script, paged_get returns exactly the first k items and requests no
\* page after the first one that brings the accumulator to k.
C2_Cap ==
    (args.op = "paged_get" /\ IsChain /\ args.max_items >= 0
        /\ args.max_items < Len(ItemsUpTo(Len(pages)))) =>
        /\ Len(wire) <= StopPage(args.max_items)
        /\ pc # "raised"
        /\ pc = "returned" =>
              /\ ret = Value(SubSeq(ItemsUpTo(Len(pages)), 1, args.max_items))
              /\ Len(wire) = StopPage(args.max_items)

\* C2's case: the second page of three is cut short by max_items = 3 and the
\* third page is never requested
C2_Witness ==
    /\ pc = "returned"
    /\ IsChain
    /\ Len(pages) = 3
    /\ args.max_items = 3
    /\ Len(out) = 4
    /\ Len(ret.value) = 3
    /\ Len(wire) = 2

\* the i-th call fails: a transport failure or a status of 400 or more
CallFails(i) ==
    \/ Served(pages, i).kind = "raise"
    \/ Served(pages, i).kind = "response" /\ Served(pages, i).status_code >= 400

\* C3: a page request that fails ends paged_get at once with that error: it is
\* the last request, nothing is returned, whatever was accumulated before.
C3_FailurePropagates ==
    \A i \in 1..Len(wire) :
        CallFails(i) =>
            /\ i = Len(wire)
            /\ pc = "raised"
            /\ ret.kind = "BBError"
            /\ ret.error = (IF Served(pages, i).kind = "raise" THEN "transport" ELSE "http")
            /\ Served(pages, i).kind = "raise" => ret.cause = Served(pages, i).cause
            /\ Served(pages, i).kind = "response" =>
                  ret.status_code = Served(pages, i).status_code

\* C3's case: the third request fails with a status of 400 or more after two
\* pages with items
C3_Witness ==
    /\ pc = "raised"
    /\ Len(wire) = 3
    /\ CallFails(3)
    /\ resp.kind = "response"
    /\ Len(out) >= 2

\* C4: a page with isLastPage false and no (or a null) nextPageStart, the
\* accumulator still below max_items, ends paged_get: it returns everything
\* fetched up to and including that page, and requests nothing more.
C4_MissingCursorStops ==
    \A i \in 1..Len(wire) :
        (/\ IsPage(i)
         /\ Get(PageAt(i).value, "isLastPage", Absent) = JBool(FALSE)
         /\ Get(PageAt(i).value, "nextPageStart", JNull) = JNull
         /\ Len(ItemsUpTo(i)) < args.max_items) =>
            /\ i = Len(wire)
            /\ pc = "returned"
            /\ ret = Value(ItemsUpTo(i))

\* C4's case: the second page says isLastPage false, has items and a null
\* nextPageStart
C4_Witness ==
    /\ pc = "returned"
    /\ Len(wire) = 2
    /\ IsPage(2)
    /\ Get(PageAt(2).value, "isLastPage", Absent) = JBool(FALSE)
    /\ Has(PageAt(2).value, "nextPageStart")
    /\ Len(PageValues(PageAt(2).value)) = 1
    /\ Len(ret.value) = 2
    /\ args.max_items > 2

\* C5: a page without an isLastPage field, the accumulator below max_items, is
\* the last page: paged_get returns the accumulator and requests nothing more,
\* also when the page has a nextPageStart.
C5_MissingIsLastPageStops ==
    \A i \in 1..Len(wire) :
        (/\ IsPage(i)
         /\ ~Has(PageAt(i).value, "isLastPage")
         /\ Len(ItemsUpTo(i)) < args.max_items) =>
            /\ i = Len(wire)
            /\ pc = "returned"
            /\ ret = Value(ItemsUpTo(i))

\* C5's case: the second page has items and a nextPageStart but no isLastPage
C5_Witness ==
    /\ pc = "returned"
    /\ Len(wire) = 2
    /\ IsPage(2)
    /\ ~Has(PageAt(2).value, "isLastPage")
    /\ Get(PageAt(2).value, "nextPageStart", JNull) = JInt(25)
    /\ Len(PageValues(PageAt(2).value)) = 1
    /\ Len(ret.value) = 2

(***************************************************************************)
(* Properties of request (specification SpecRequest).                      *)
(***************************************************************************)
\* request() has been called and has returned or raised
Requested == pc \in {"returned", "raised"} /\ args.op = "request"

\* C6: every response with a status of 400 or more, whatever its body, makes
\* request raise the HTTP-status error with that status, the method and the
\* URL of the call; no other error, and no value returned.
C6_StatusErrorWhateverBody ==
    (Requested /\ resp.kind = "response" /\ resp.status_code >= 400) =>
        /\ pc = "raised"
        /\ ret.kind = "BBError"
        /\ ret.error = "http"
        /\ ret.status_code = resp.status_code
        /\ ret.method = args.method
        /\ ret.url = wire[1].url

\* C6's case: a 404 whose errors list does not start with an object
C6_Witness ==
    /\ Requested
    /\ resp.kind = "response"
    /\ resp.status_code = 404
    /\ resp.body = JsonBody(Object([errors |-> JList(<<JStr("e0")>>), message |-> Absent]))
    /\ ret.kind = "BBError"
    /\ ret.detail = JStr("")

\* the message C7 says request extracts from a failed response, read in the
\* code's favour: an errors list whose first element is no object, or whose
\* first element has an empty message, counts as yielding no message at all
ClaimedDetail(r) ==
    LET j == IF r.body.form = "json" THEN r.body.json ELSE JNull
        errors == IF IsDict(j) THEN Get(j, "errors", JNull) ELSE JNull
        first == IF IsList(errors) /\ errors.elems # <<>> THEN errors.elems[1] ELSE JNull
        top == IF IsDict(j) THEN Get(j, "message", JNull) ELSE JNull
    IN  IF IsDict(first) /\ Has(first, "message")
        THEN (IF Truthy(first.f["message"]) THEN first.f["message"] ELSE JStr(""))
        ELSE IF first # JNull /\ ~IsDict(first) THEN JStr("")
        ELSE IF IsStr(top) THEN top
        ELSE JStr("")

\* C7: the message of a failed response is the first error's message when the
\* errors list has one, otherwise the top-level string message when there is
\* one, and empty only when neither shape matches.
C7_MessageFallback ==
    (Requested /\ resp.kind = "response" /\ resp.status_code >= 400) =>
        ret.kind = "BBError" /\ ret.detail = ClaimedDetail(resp)

\* C8: a response with a status below 400 never makes request fail: it returns
\* {} for an empty body, the decoded value when the Content-Type contains
\* application/json, and {"raw": text} otherwise.
C8_SuccessNeverFails ==
    (Requested /\ resp.kind = "response" /\ resp.status_code < 400) =>
        /\ pc = "returned"
        /\ ret.kind = "value"
        /\ resp.body = NoBody => ret.value = EmptyDict
        /\ (resp.body # NoBody /\ Contains(ContentType(resp), "application/json")
              /\ resp.body.form = "json") => ret.value = resp.body.json
        /\ (resp.body # NoBody /\ ~Contains(ContentType(resp), "application/json")) =>
              ret.value = JDict([k \in {"raw"} |-> JStr(Text(resp))])

\* C9: a call of request issues exactly one HTTP call; when that call fails in
\* transport, request raises the client's transport error with the underlying
\* message, and issues no second call.
C9_OneCallTransportError ==
    /\ pc = "ready" => wire = <<>>
    /\ Requested =>
          /\ Len(wire) = 1
          /\ resp.kind = "raise" =>
                /\ pc = "raised"
                /\ ret.kind = "BBError"
                /\ ret.error = "transport"
                /\ ret.cause = resp.cause

\* C9's case: a POST with a body times out
C9_Witness ==
    /\ Requested
    /\ resp = Raised("Timeout")
    /\ args.method = "POST"
    /\ args.json_body # JNull
    /\ ret = TransportError("Timeout")
    /\ Len(wire) = 1

(***************************************************************************)
(* Properties of client (specification SpecConfig).                        *)
(***************************************************************************)
\* the variable is unset, empty or blank
Blank(name) == Strip(Getenv(env, name, <<>>)) = <<>>

\* the server URL, trimmed and without trailing slashes, ends with /rest
ServerEndsWithRest ==
    EndsWith(RStripSlash(Strip(Getenv(env, "BITBUCKET_SERVER", <<>>))), RestSuffix)

\* C10 as stated: resolution fails with the missing-variable error whenever
\* the server URL or the token is empty or unset, whatever the other one is.
C10_AsStated ==
    (pc # "start" /\ (Blank("BITBUCKET_SERVER") \/ Blank("BITBUCKET_API_TOKEN"))) =>
        /\ pc = "raised"
        /\ ret.kind = "BBError"
        /\ ret.error = "missing"

\* C10, amended: resolution fails whenever the server URL or the token is
\* empty or unset; the error is the missing-variable error when the server URL
\* is empty or unset, and when the token is empty or unset and the server URL
\* ends with /rest; with a token empty or unset and a server URL that does not
\* end with /rest, the error is the invalid-base-URL error.
C10_MissingVariable ==
    (pc # "start" /\ (Blank("BITBUCKET_SERVER") \/ Blank("BITBUCKET_API_TOKEN"))) =>
        /\ pc = "raised"
        /\ ret.kind = "BBError"
        /\ Blank("BITBUCKET_SERVER") => ret = MissingVariable("BITBUCKET_SERVER")
        /\ (~Blank("BITBUCKET_SERVER") /\ ServerEndsWithRest) =>
              ret = MissingVariable("BITBUCKET_API_TOKEN")
        /\ (~Blank("BITBUCKET_SERVER") /\ ~ServerEndsWithRest) => ret.error = "invalid_base"

\* C10's case: a valid server URL and a token that is set but blank
C10_Witness ==
    /\ pc = "raised"
    /\ ServerEndsWithRest
    /\ "BITBUCKET_API_TOKEN" \in DOMAIN env
    /\ env["BITBUCKET_API_TOKEN"] = <<" ">>
    /\ ret = MissingVariable("BITBUCKET_API_TOKEN")

\* the value of BITBUCKET_SERVER as set ("" when unset)
RawServer == Getenv(env, "BITBUCKET_SERVER", <<>>)

\* C11 as stated: with a server URL and a token that are not empty, resolution
\* fails with the invalid-base-URL error when the URL without its trailing
\* slashes does not end with /rest; otherwise it succeeds, the base is that
\* URL without its trailing slashes and the API root is the base + /api/latest.
C11_AsStated ==
    (pc # "start" /\ ~Blank("BITBUCKET_SERVER") /\ ~Blank("BITBUCKET_API_TOKEN")) =>
        IF ~EndsWith(RStripSlash(RawServer), RestSuffix)
        THEN pc = "raised" /\ ret.kind = "BBError" /\ ret.error = "invalid_base"
        ELSE /\ pc = "ready"
             /\ bb.base_rest = RStripSlash(RawServer)
             /\ Api(bb) = RStripSlash(RawServer) \o ApiLatest

\* C11, amended: the URL is first trimmed of surrounding whitespace, then of
\* its trailing slashes; resolution fails with the invalid-base-URL error when
\* the result does not end with /rest, and otherwise succeeds with the result
\* as base and the result + /api/latest as API root.
C11_BaseAndApiRoot ==
    (pc # "start" /\ ~Blank("BITBUCKET_SERVER") /\ ~Blank("BITBUCKET_API_TOKEN")) =>
        LET u == RStripSlash(Strip(RawServer))
        IN  IF ~EndsWith(u, RestSuffix)
            THEN pc = "raised" /\ ret.kind = "BBError" /\ ret.error = "invalid_base"
                 /\ ret.got = u
            ELSE /\ pc = "ready"
                 /\ ret.kind = "value"
                 /\ bb.base_rest = u
                 /\ bb.token = Strip(env["BITBUCKET_API_TOKEN"])
                 /\ Api(bb) = u \o ApiLatest

\* C11's case: a URL ending with /rest and two slashes resolves to the base
\* without them
C11_Witness ==
    /\ pc = "ready"
    /\ RawServer = <<"h">> \o RestSuffix \o <<"/", "/">>
    /\ bb.base_rest = <<"h">> \o RestSuffix
    /\ Api(bb) = <<"h">> \o RestSuffix \o ApiLatest

(***************************************************************************)
(* Properties of the calls paged_get issues (specification Spec).          *)
(***************************************************************************)
\* the parameters the caller gave paged_get, as a dict
CallerParams == IF args.params = JNull THEN EmptyDict ELSE args.params

\* C12: every request of paged_get is a GET with limit = the page size and
\* start = the cursor: 0 for the first request and, for each later one, the
\* nextPageStart of the page the request before it returned; start and limit
\* of the caller are overwritten, every other parameter is sent unchanged.
C12_CursorAndLimit ==
    args.op = "paged_get" =>
        \A i \in 1..Len(wire) :
            /\ wire[i].method = "GET"
            /\ wire[i].url = Url(bb, args.path)
            /\ DOMAIN wire[i].params.f = DOMAIN CallerParams.f \cup {"start", "limit"}
            /\ wire[i].params.f["limit"] = JInt(args.limit)
            /\ wire[i].params.f["start"] =
                  (IF i = 1 THEN JInt(0) ELSE fetched[i - 1].f["nextPageStart"])
            /\ \A k \in DOMAIN CallerParams.f \ {"start", "limit"} :
                  wire[i].params.f[k] = CallerParams.f[k]

\* C12's case: the caller passed start and limit of its own, and the third
\* request carries the cursor 0 that the second page gave after the first
\* page gave 25
C12_Witness ==
    /\ Len(wire) = 3
    /\ Has(CallerParams, "start")
    /\ CallerParams.f["start"] = JInt(9)
    /\ wire[1].params.f["start"] = JInt(0)
    /\ wire[2].params.f["start"] = JInt(25)
    /\ wire[3].params.f["start"] = JInt(0)
    /\ wire[3].params.f["limit"] = JInt(DefaultLimit)
    /\ wire[3].params.f["state"] = JStr("OPEN")

(***************************************************************************)
(* Every call of the client: request and paged_get side by side            *)
(* (specification SpecCalls).                                              *)
(***************************************************************************)
\* the environments of the commands that call the server
CallEnvs ==
    {DefaultEnv,
     [k \in {"BITBUCKET_SERVER", "BITBUCKET_API_TOKEN"} |->
        IF k = "BITBUCKET_SERVER" THEN RestSuffix \o <<"/">> ELSE <<" ", "t", "k", " ">>]}

\* a server with two pages of pull requests
TwoPages ==
    <<JsonOk(Object([values |-> JList(<<Item(1, 1), Item(1, 2)>>),
                     isLastPage |-> JBool(FALSE), nextPageStart |-> JInt(25)])),
      JsonOk(Object([values |-> JList(<<Item(2, 1)>>), isLastPage |-> JBool(TRUE)]))>>

\* a process whose client() has returned, about to run any command
InitCalls ==
    /\ pc = "ready"
    /\ env \in CallEnvs
    /\ bb = ClientOf(env).value
    /\ ret = NoResult
    /\ wire = <<>>
    /\ resp = NoResponse
    /\ args = NoArgs
    /\ out = <<>>
    /\ start = JInt(0)
    /\ params = EmptyDict
    /\ pages = TwoPages
    /\ fetched = <<>>

NextCalls == Request \/ PagedGet \/ Fetch

SpecCalls == InitCalls /\ [][NextCalls]_vars

\* C13: every HTTP call of the client, the page requests of paged_get
\* included, carries Authorization: Bearer <token> and
\* Accept: application/json;charset=UTF-8, and carries
\* Content-Type: application/json exactly when request was given a JSON body.
C13_Headers ==
    \A i \in 1..Len(wire) :
        /\ {"Authorization", "Accept"} \subseteq DOMAIN wire[i].headers
        /\ DOMAIN wire[i].headers \subseteq {"Authorization", "Accept", "Content-Type"}
        /\ wire[i].headers["Authorization"] = Bearer \o Strip(env["BITBUCKET_API_TOKEN"])
        /\ wire[i].headers["Accept"] = <<"application/json;charset=UTF-8">>
        /\ "Content-Type" \in DOMAIN wire[i].headers <=>
              (args.op = "request" /\ args.json_body # JNull)
        /\ "Content-Type" \in DOMAIN wire[i].headers =>
              wire[i].headers["Content-Type"] = <<"application/json">>
        /\ (wire[i].json # JNull) <=> "Content-Type" \in DOMAIN wire[i].headers

\* C13's case: a POST with the empty object as body carries the Content-Type
C13_Witness ==
    /\ args.op = "request"
    /\ args.json_body = EmptyDict
    /\ Len(wire) = 1
    /\ wire[1].method = "POST"
    /\ wire[1].headers["Content-Type"] = <<"application/json">>
    /\ wire[1].headers["Authorization"] = Bearer \o <<"t", "k">>

(***************************************************************************)
(* The result of paged_get against what was fetched (specification Spec).  *)
(***************************************************************************)
\* C14: whenever paged_get returns with max_items >= 0, the result is a prefix
\* of the concatenation, in fetch order, of the values of the pages fetched (a
\* page whose values is absent or not a list adds nothing) and has at most
\* max_items items: nothing is reordered, repeated or dropped but at the end.
C14_PrefixOfFetched ==
    (args.op = "paged_get" /\ pc = "returned" /\ args.max_items >= 0) =>
        LET all == ItemsUpTo(Len(wire))
            n == Len(ret.value)
        IN  /\ ret.kind = "value"
            /\ Len(fetched) = Len(wire)
            /\ \A i \in 1..Len(wire) : fetched[i] = PageAt(i).value
            /\ n <= args.max_items
            /\ n <= Len(all)
            /\ ret.value = SubSeq(all, 1, n)
            /\ n < Len(all) => n = args.max_items

\* C14's case: a page of two items, a page whose values is null, a page of two
\* items; max_items = 3 cuts the last item off
C14_Witness ==
    /\ pc = "returned"
    /\ args.max_items = 3
    /\ Len(wire) = 3
    /\ Get(fetched[2], "values", Absent) = JNull
    /\ Len(ItemsUpTo(3)) = 4
    /\ ret = Value(<<Item(1, 1), Item(1, 2), Item(3, 1)>>)

(***************************************************************************)
(* paged_get against a server that never reports a last page               *)
(* (specification SpecEndless).                                            *)
(***************************************************************************)
\* i-th pages of a server that goes on: isLastPage false, the cursor advances
Advancing(i) ==
    {JsonOk(Object([values |-> JList([j \in 1..c |-> Item(i, j)]),
                    isLastPage |-> JBool(FALSE), nextPageStart |-> JInt(25 * i)])) :
        c \in ItemCounts}

RECURSIVE AdvancingPrefixes(_)
\* the first k pages of such servers
AdvancingPrefixes(k) ==
    IF k = 0 THEN {<<>>}
    ELSE {Append(s, p) : s \in AdvancingPrefixes(k - 1), p \in Advancing(k)}

\* the servers that never report a last page, as far as they are asked
EndlessScripts == AdvancingPrefixes(MaxRequests)

\* a process whose client() has returned, in front of such a server
InitEndless ==
    /\ pc = "ready"
    /\ env = DefaultEnv
    /\ bb = ClientOf(DefaultEnv).value
    /\ ret = NoResult
    /\ wire = <<>>
    /\ resp = NoResponse
    /\ args = NoArgs
    /\ out = <<>>
    /\ start = JInt(0)
    /\ params = EmptyDict
    /\ pages \in EndlessScripts
    /\ fetched = <<>>

\* paged_get runs in one thread and every request ends within its timeout:
\* the call is made and each pass of the loop is taken
SpecEndless == InitEndless /\ [][Next]_vars /\ WF_vars(PagedGet) /\ WF_vars(Fetch)

\* paged_get has stopped through the max_items test with exactly max_items items
StoppedAtMaxItems ==
    /\ pc = "returned"
    /\ ReachedMax(out, args.max_items)
    /\ Len(ret.value) = args.max_items

\* every page of the server carries at least one item
EveryPageHasItems ==
    \A i \in 1..Len(pages) : Get(pages[i].body.json, "values", Absent) \in
        {JList(<<Item(i, 1)>>), JList(<<Item(i, 1), Item(i, 2)>>)}

\* C15 as stated: against a server whose every page has isLastPage false and
\* an advancing nextPageStart, paged_get eventually stops, through the
\* max_items test and with exactly max_items items.
C15_AsStated ==
    /\ [](pc # "raised" /\ (pc = "returned" => StoppedAtMaxItems))
    /\ (pc = "fetching") ~> (pc = "returned")

\* C15, amended: against such a server whose every page carries at least one
\* item, paged_get with max_items >= 0 never raises, eventually returns, and
\* returns only through the max_items test, with exactly the first max_items items.
C15_StopsAtMaxItems ==
    /\ []((args.op = "paged_get" /\ args.max_items >= 0 /\ EveryPageHasItems) =>
            /\ pc # "raised"
            /\ pc = "returned" =>
                  /\ StoppedAtMaxItems
                  /\ ret = Value(SubSeq(ItemsUpTo(Len(wire)), 1, args.max_items)))
    /\ (pc = "fetching" /\ args.max_items >= 0 /\ EveryPageHasItems) ~> (pc = "returned")

\* C15's case: three pages of one item each are fetched before max_items = 3 stops the loop
C15_Witness ==
    /\ EveryPageHasItems
    /\ args.op = "paged_get"
    /\ args.max_items = 3
    /\ Len(wire) = 3
    /\ \A i \in 1..3 : IsLastPage(fetched[i]) = FALSE /\ NextPageStart(fetched[i]) = JInt(25 * i)
    /\ StoppedAtMaxItems
    /\ ret = Value(<<Item(1, 1), Item(2, 1), Item(3, 1)>>)

(***************************************************************************)
(* The first request of paged_get (specification Spec).                    *)
(***************************************************************************)
\* paged_get has returned or raised
Ended == pc \in {"returned", "raised"}

\* C16: paged_get issues a page request before any test for the end: it never
\* ends without one; with max_items = 0 it makes exactly one request, with
\* start = 0, and then returns the empty list when the request gave a page,
\* while a failure of that request is raised and no empty list is returned.
C16_RequestBeforeTests ==
    args.op = "paged_get" =>
        /\ Ended => Len(wire) >= 1
        /\ Len(wire) = 0 => pc = "fetching" /\ ret = NoResult
        /\ args.max_items = 0 =>
              /\ Len(wire) <= 1
              /\ Len(wire) = 1 =>
                    /\ Ended
                    /\ wire[1].params.f["start"] = JInt(0)
                    /\ pc = "returned" <=> IsPage(1)
                    /\ pc = "returned" => ret = Value(<<>>)
                    /\ CallFails(1) =>
                          /\ pc = "raised"
                          /\ ret = RequestOf(bb, "GET", args.path, Served(pages, 1))
                          /\ ret.kind = "BBError"

\* C16's case: max_items = 0, one request for a page of two items that is not
\* the last one, and the empty list is returned
C16_Witness ==
    /\ args.op = "paged_get"
    /\ args.max_items = 0
    /\ Len(wire) = 1
    /\ wire[1].params.f["start"] = JInt(0)
    /\ pc = "returned"
    /\ ret = Value(<<>>)
    /\ Len(PageValues(fetched[1])) = 2
    /\ ~IsLastPage(fetched[1])

(***************************************************************************)
(* Pages without a page structure (specification Spec).                    *)
(***************************************************************************)
\* the i-th call succeeds with no body, or with a body that is not sent as JSON
NoPageStructure(i) ==
    /\ Served(pages, i).kind = "response"
    /\ Served(pages, i).status_code < 400
    /\ \/ ~HasContent(Served(pages, i))
       \/ ~Contains(ContentType(Served(pages, i)), "application/json")

\* what request makes of a text body
RawOf(r) == JDict([k \in {"raw"} |-> JStr(Text(r))])

\* C17: when a page request of paged_get succeeds (status < 400) without a page
\* structure, that is with an empty body (request gives {}) or a non-JSON body
\* (request gives {"raw": text}), paged_get does not raise: the page adds no
\* item and counts as the last one, and paged_get returns what the earlier
\* pages gave, with no further request.
C17_NoPageStructureIsLast ==
    \A i \in 1..Len(wire) :
        NoPageStructure(i) =>
            /\ pc = "returned"
            /\ i = Len(wire)
            /\ Len(fetched) = Len(wire)
            /\ fetched[i] = (IF HasContent(Served(pages, i))
                             THEN RawOf(Served(pages, i)) ELSE EmptyDict)
            /\ PageValues(fetched[i]) = <<>>
            /\ ret = Value(SliceTo(ItemsUpTo(i - 1), args.max_items))
            /\ args.max_items >= 0 => ret = Value(ItemsUpTo(i - 1))

\* C17's case: a page of two items, then a 200 text/plain answer; and the two
\* items are returned
C17_Witness ==
    /\ pc = "returned"
    /\ Len(wire) = 2
    /\ NoPageStructure(2)
    /\ HasContent(Served(pages, 2))
    /\ fetched[2] = JDict([k \in {"raw"} |-> JStr("<html>")])
    /\ ret = Value(<<Item(1, 1), Item(1, 2)>>)

====
